---------------------------- MODULE Spec2Model ----------------------------
(***************************************************************************)
(* Model of src/src/bin/trade_new.rs: the signal engine, the quote layer,  *)
(* the risk manager, the message router and the consumer loop of main.     *)
(*                                                                         *)
(* f64 values are fixed-point integers in units of 1/Scale, with one       *)
(* extra value NaN that propagates as IEEE-754 NaN does (every ordered      *)
(* comparison with NaN is false).  Infinities are outside the modelled     *)
(* range.  Strings are TLA+ strings; str::parse::<f64> is ParseF64.        *)
(***************************************************************************)
EXTENDS Integers, Sequences, FiniteSets, TLC

(***************************************************************************)
(* Program constants (trade_new.rs lines 9-14).                            *)
(***************************************************************************)
Scale == 10000
NaN == 2000000000

TWAP_WINDOW == 120
TRADE_WINDOW == 80
DEVIATION_THRESHOLD == 20                 \* 0.002
AGGRESSIVE_SPREAD_TICKS == 5000           \* 0.5
BASE_QUOTE_SIZE == 10000                  \* 1.0
POSITION_LIMIT == 50000                   \* 5.0
MOMENTUM_TAKE == 10                       \* hist.iter().rev().take(10)
HALF_LIFE_MS == 8000                      \* let half_life_ms = 8000.0
Ln2 == 6931                               \* ln 2 = 0.6931...

(***************************************************************************)
(* f64 arithmetic.                                                         *)
(***************************************************************************)
F(n) == n * Scale                         \* the f64 of a small integer

IsNaN(x) == x = NaN

FNeg(a) == IF IsNaN(a) THEN NaN ELSE -a

FAdd(a, b) == IF IsNaN(a) \/ IsNaN(b) THEN NaN ELSE a + b

FSub(a, b) == IF IsNaN(a) \/ IsNaN(b) THEN NaN ELSE a - b

\* floor(a*b/Scale), computed without leaving 32 bits
MulFix(a, b) ==
    LET qa == a \div Scale
        ra == a % Scale
        qb == b \div Scale
        rb == b % Scale
    IN  qa * qb * Scale + qa * rb + ra * qb + ((ra * rb) \div Scale)

FMul(a, b) == IF IsNaN(a) \/ IsNaN(b) THEN NaN ELSE MulFix(a, b)

RECURSIVE LongDiv(_, _, _)
\* the digits of r/b (0 <= r < b) to the resolution p (a power of ten)
LongDiv(r, b, p) ==
    IF p = 1 THEN 0
    ELSE LET d == (r * 10) \div b
         IN  d * (p \div 10) + LongDiv((r * 10) % b, b, p \div 10)

\* floor(a*Scale/b) for b > 0
DivPos(a, b) == (a \div b) * Scale + LongDiv(a % b, b, Scale)

\* a/b; 0/0 is NaN, x/0 (an infinity) is outside the modelled range
FDiv(a, b) ==
    IF IsNaN(a) \/ IsNaN(b) \/ b = 0 THEN NaN
    ELSE IF b > 0 THEN DivPos(a, b) ELSE DivPos(-a, -b)

FGt(a, b) == ~IsNaN(a) /\ ~IsNaN(b) /\ a > b
FLt(a, b) == ~IsNaN(a) /\ ~IsNaN(b) /\ a < b
FLe(a, b) == ~IsNaN(a) /\ ~IsNaN(b) /\ a <= b
FGe(a, b) == ~IsNaN(a) /\ ~IsNaN(b) /\ a >= b

FAbs(a) == IF IsNaN(a) THEN NaN ELSE IF a < 0 THEN -a ELSE a

\* f64::min: a NaN operand is ignored
FMin(a, b) == IF IsNaN(a) THEN b ELSE IF IsNaN(b) THEN a ELSE IF a < b THEN a ELSE b

\* f64::clamp: NaN stays NaN
FClamp(x, lo, hi) ==
    IF IsNaN(x) THEN NaN ELSE IF x < lo THEN lo ELSE IF x > hi THEN hi ELSE x

\* f64::signum: 1.0 for +0.0 and above, -1.0 below, NaN for NaN
FSignum(x) == IF IsNaN(x) THEN NaN ELSE IF x >= 0 THEN F(1) ELSE -F(1)

\* v*v <= x as real numbers (the product's low digits compared too)
SqLe(v, x) ==
    LET hi == MulFix(v, v)
        lo == ((v % Scale) * (v % Scale)) % Scale
    IN  hi < x \/ (hi = x /\ lo = 0)

RECURSIVE SqrtSearch(_, _, _)
\* the largest v in lo..hi with v*v <= x
SqrtSearch(x, lo, hi) ==
    IF lo >= hi THEN lo
    ELSE LET mid == (lo + hi + 1) \div 2
         IN  IF SqLe(mid, x) THEN SqrtSearch(x, mid, hi)
             ELSE SqrtSearch(x, lo, mid - 1)

\* f64::sqrt (rounded down); NaN for NaN and for negatives
FSqrt(x) ==
    IF IsNaN(x) \/ x < 0 THEN NaN
    ELSE SqrtSearch(x, 0, IF x < F(1) THEN F(1) ELSE IF x < F(400) THEN x ELSE F(400))

\* f64::tanh by its continued fraction x(15+x^2)/(15+6x^2), rounded to the
\* nearest unit and clamped to [-1, 1]; exact about the 0.1 threshold
TanhPos(x) ==
    LET x2  == MulFix(x, x)
        num == MulFix(x, F(15) + x2)
        den == F(15) + 6 * x2
        q2  == DivPos(2 * num + 1, den)
        r   == (q2 + 1) \div 2
    IN  IF x >= F(4) \/ r > F(1) THEN F(1) ELSE r

FTanh(x) == IF IsNaN(x) THEN NaN ELSE IF x >= 0 THEN TanhPos(x) ELSE -TanhPos(-x)

RECURSIVE Log2Floor(_)
Log2Floor(n) == IF n < 2 THEN 0 ELSE 1 + Log2Floor(n \div 2)

RECURSIVE Pow2(_)
Pow2(k) == IF k = 0 THEN 1 ELSE 2 * Pow2(k - 1)

\* f64::ln_1p of a whole number of milliseconds: k ln 2 + ln m with the
\* mantissa's logarithm interpolated (error below 0.07, below one unit
\* after the division by the half life)
FLn1p(ms) ==
    LET n == ms + 1
        k == Log2Floor(n)
        p == Pow2(k)
    IN  k * Ln2 + (((n - p) * Ln2) \div p)

\* f64::exp for the small arguments the decay produces: 1 + x + x^2/2
FExp(x) == IF IsNaN(x) THEN NaN ELSE F(1) + x + (MulFix(x, x) \div 2)

(***************************************************************************)
(* str::parse::<f64>() on the strings the feed model sends: Ok(v) for a    *)
(* decimal literal and for "NaN" (Rust's f64::from_str accepts it), Err    *)
(* for anything else.                                                      *)
(***************************************************************************)
Ok(v) == [ok |-> TRUE, val |-> v]
Err == [ok |-> FALSE, val |-> 0]

ParseF64(s) ==
    CASE s = "100.0" -> Ok(1000000)
      [] s = "100.1" -> Ok(1001000)
      [] s = "100.2" -> Ok(1002000)
      [] s = "100.4" -> Ok(1004000)
      [] s = "100.6" -> Ok(1006000)
      [] s = "102.0" -> Ok(1020000)
      [] s = "103.0" -> Ok(1030000)
      [] s = "120.0" -> Ok(1200000)
      [] s = "122.0" -> Ok(1220000)
      [] s = "124.5" -> Ok(1245000)
      [] s = "125.0" -> Ok(1250000)
      [] s = "125.5" -> Ok(1255000)
      [] s = "10"    -> Ok(100000)
      [] s = "5"     -> Ok(50000)
      [] s = "3.0"   -> Ok(30000)
      [] s = "1.0"   -> Ok(10000)
      [] s = "-1.0"  -> Ok(-10000)
      [] s = "NaN"   -> Ok(NaN)
      [] OTHER       -> Err

\* mutant: a field that fails to parse poisons the value instead of being 0.0
UnwrapOrPoison(r, d) == IF r.ok THEN r.val ELSE NaN

\* Result::unwrap_or
UnwrapOr(r, d) == IF r.ok THEN r.val ELSE d

(***************************************************************************)
(* SignalState and its helpers (trade_new.rs lines 16-206).                *)
(***************************************************************************)
BookSample(ts, mid, bid, ask, bvol, avol) ==
    [timestamp_ms |-> ts, mid_price |-> mid, best_bid |-> bid, best_ask |-> ask,
     bid_volume |-> bvol, ask_volume |-> avol]

TradeSample(price, size, is_buy, ts) ==
    [price |-> price, size |-> size, is_buy |-> is_buy, timestamp_ms |-> ts]

\* Position::default()
PositionDefault == [base |-> 0, quote |-> 0]

\* SignalState::default()
SignalStateDefault ==
    [book_history |-> <<>>, trade_history |-> <<>>,
     trend_score |-> 0, twap |-> 0, sliding_signal |-> 0, normalized_slide |-> 0,
     fill_score |-> 0, twap_deviation |-> 0, mean_revert_signal |-> "",
     best_bid |-> 0, best_ask |-> 0, volatility |-> 0, aggressive_mode |-> FALSE,
     position |-> PositionDefault]

\* mutant: pop_back in place of pop_front
PushCappedPopBack(hist, x, cap) ==
    LET pushed == Append(hist, x)
    IN  IF Len(pushed) > cap THEN SubSeq(pushed, 1, cap) ELSE pushed

\* push_back, then pop_front once the length exceeds the cap
PushCapped(hist, x, cap) ==
    LET pushed == Append(hist, x)
    IN  IF Len(pushed) > cap THEN Tail(pushed) ELSE pushed

RECURSIVE FSumRange(_, _, _)
\* the f64 sum of xs[lo..hi].  Addition on the fixed-point grid is exact and
\* NaN absorbs, so the order of the additions does not change the result;
\* the sum is taken pairwise to keep its evaluation shallow.
FSumRange(xs, lo, hi) ==
    IF lo > hi THEN 0
    ELSE IF lo = hi THEN xs[lo]
    ELSE LET m == (lo + hi) \div 2
         IN  FAdd(FSumRange(xs, lo, m), FSumRange(xs, m + 1, hi))

\* Iterator::sum::<f64>()
FSum(xs) == FSumRange(xs, 1, Len(xs))

\* history.iter().map(|s| s.mid_price)
Mids(hist) == [i \in 1..Len(hist) |-> hist[i].mid_price]

\* history.iter().map(|s| (s.mid_price - mean).powi(2))
SqDevs(hist, mean) ==
    [i \in 1..Len(hist) |-> LET d == FSub(hist[i].mid_price, mean) IN FMul(d, d)]

compute_volatility(history) ==
    LET n == Len(history)
    IN  IF n < 2 THEN 0
        ELSE LET mean == FDiv(FSum(Mids(history)), F(n))
                 var  == FDiv(FSum(SqDevs(history, mean)), F(n))
             IN  FSqrt(var)

\* hist.iter().rev().take(k): newest first
RevTake(hist, k) ==
    LET n == Len(hist)
        m == IF n < k THEN n ELSE k
    IN  [i \in 1..m |-> hist[n + 1 - i]]

\* recent.windows(2).map(|w| w[0].mid_price - w[1].mid_price)
WindowDiffs(recent) ==
    [i \in 1..(Len(recent) - 1) |-> FSub(recent[i].mid_price, recent[i + 1].mid_price)]

compute_momentum(hist) ==
    IF Len(hist) < 2 THEN 0
    ELSE LET recent == RevTake(hist, MOMENTUM_TAKE)
         IN  FSum(WindowDiffs(recent))

\* mutant: the sum is divided by the window's capacity
compute_twap_fixed_divisor(hist) ==
    LET n == IF Len(hist) < TWAP_WINDOW THEN Len(hist) ELSE TWAP_WINDOW
    IN  IF n = 0 THEN 0
        ELSE LET taken == RevTake(hist, n)
             IN  FDiv(FSum(Mids(taken)), F(TWAP_WINDOW))

compute_twap(hist) ==
    LET n == IF Len(hist) < TWAP_WINDOW THEN Len(hist) ELSE TWAP_WINDOW
    IN  IF n = 0 THEN 0
        ELSE LET taken == RevTake(hist, n)
             IN  FDiv(FSum(Mids(taken)), F(n))

\* mutant: the age is the distance in time, also for a trade later than now
DecayWeightAbsAge(now, ts) ==
    LET age == IF now - ts > 0 THEN now - ts ELSE ts - now
    IN  FExp(FDiv(FNeg(FLn1p(age)), F(HALF_LIFE_MS)))

\* the decay weight of one trade: exp(-ln_1p(age) / half_life_ms)
DecayWeight(now, ts) ==
    LET age == IF now - ts > 0 THEN now - ts ELSE 0      \* (now - ts).max(0.0)
    IN  FExp(FDiv(FNeg(FLn1p(age)), F(HALF_LIFE_MS)))

\* what the loop adds to weighted_net and to weighted_total for each trade
NetTerms(trades, now) ==
    [i \in 1..Len(trades) |->
        LET signed == IF trades[i].is_buy THEN F(1) ELSE -F(1)
        IN  FMul(FMul(signed, trades[i].size), DecayWeight(now, trades[i].timestamp_ms))]

TotalTerms(trades, now) ==
    [i \in 1..Len(trades) |->
        FMul(trades[i].size, DecayWeight(now, trades[i].timestamp_ms))]

\* weighted_total > 1e-6: 1e-6 lies strictly between 0 and one unit of the
\* fixed-point grid, so on representable values this is total > 0
AboveTiny(x) == FGt(x, 0)
\* t.abs() < 1e-6, likewise
BelowTiny(x) == FLt(FAbs(x), 1)

compute_decay_weighted_slide(trades, now) ==
    LET weighted_net   == FSum(NetTerms(trades, now))
        weighted_total == FSum(TotalTerms(trades, now))
        norm == IF AboveTiny(weighted_total) THEN FDiv(weighted_net, weighted_total)
                ELSE 0
    IN  <<weighted_net, norm>>

\* mutant: no guard against a TWAP of zero
compute_twap_deviation_unguarded(p, t) == FDiv(FSub(p, t), t)

compute_twap_deviation(p, t) ==
    IF BelowTiny(t) THEN 0 ELSE FDiv(FSub(p, t), t)

\* mutant: the thresholds are inclusive
interpret_mean_reversion_inclusive(d) ==
    IF FGe(d, DEVIATION_THRESHOLD) THEN "Fade breakout"
    ELSE IF FLe(d, -DEVIATION_THRESHOLD) THEN "Scalp retracement"
    ELSE "Neutral"

interpret_mean_reversion(d) ==
    IF FGt(d, DEVIATION_THRESHOLD) THEN "Fade breakout"
    ELSE IF FLt(d, -DEVIATION_THRESHOLD) THEN "Scalp retracement"
    ELSE "Neutral"

\* mutant: order flow is consulted before the trend
FillScoreFlowFirst(trend_score, normalized_slide) ==
    LET trend_strength == FTanh(trend_score)
        micro_pressure == normalized_slide
    IN  IF FGt(FAbs(micro_pressure), 4000) THEN FSignum(micro_pressure)
        ELSE IF FGt(FAbs(trend_strength), 1000) THEN FSignum(trend_strength)
        ELSE 0

\* the final directional fill_score (lines 119-128)
FillScore(trend_score, normalized_slide) ==
    LET trend_strength == FTanh(trend_score)
        micro_pressure == normalized_slide
    IN  IF FGt(FAbs(trend_strength), 1000) THEN FSignum(trend_strength)
        ELSE IF FGt(FAbs(micro_pressure), 4000) THEN FSignum(micro_pressure)
        ELSE 0

\* mutant: a volatility of exactly 10.0 still qualifies
AggressiveModeLoose(bid_px, ask_px, volatility) ==
    FLe(FSub(ask_px, bid_px), F(2)) /\ FLe(volatility, F(10))

\* current_spread <= 2.0 && volatility < 10.0
AggressiveMode(bid_px, ask_px, volatility) ==
    FLe(FSub(ask_px, bid_px), F(2)) /\ FLt(volatility, F(10))

\* mutant: the book update starts the holdings afresh
process_l2_book_flat(st, ts, bid_px, ask_px, bid_vol, ask_vol) ==
    LET mid   == FDiv(FAdd(bid_px, ask_px), F(2))
        books == PushCapped(st.book_history,
                            BookSample(ts, mid, bid_px, ask_px, bid_vol, ask_vol),
                            TWAP_WINDOW)
        trend == compute_momentum(books)
        twap  == compute_twap(books)
        dev   == compute_twap_deviation(mid, twap)
        vol   == compute_volatility(books)
        slide == compute_decay_weighted_slide(st.trade_history, ts)
    IN  [st EXCEPT !.book_history = books,
                   !.best_bid = bid_px,
                   !.best_ask = ask_px,
                   !.trend_score = trend,
                   !.twap = twap,
                   !.twap_deviation = dev,
                   !.mean_revert_signal = interpret_mean_reversion(dev),
                   !.volatility = vol,
                   !.aggressive_mode = AggressiveMode(bid_px, ask_px, vol),
                   !.sliding_signal = slide[1],
                   !.normalized_slide = slide[2],
                   !.fill_score = FillScore(trend, slide[2]),
                   !.position = PositionDefault]

\* mutant: the trend score is patched from its previous value by the newest
\* price change instead of being recomputed from the window
process_l2_book_patches(st, ts, bid_px, ask_px, bid_vol, ask_vol) ==
    LET mid   == FDiv(FAdd(bid_px, ask_px), F(2))
        books == PushCapped(st.book_history,
                            BookSample(ts, mid, bid_px, ask_px, bid_vol, ask_vol),
                            TWAP_WINDOW)
        trend == IF Len(books) < 2 THEN 0
                 ELSE FAdd(st.trend_score,
                           FSub(mid, books[Len(books) - 1].mid_price))
        twap  == compute_twap(books)
        dev   == compute_twap_deviation(mid, twap)
        vol   == compute_volatility(books)
        slide == compute_decay_weighted_slide(st.trade_history, ts)
    IN  [st EXCEPT !.book_history = books,
                   !.best_bid = bid_px,
                   !.best_ask = ask_px,
                   !.trend_score = trend,
                   !.twap = twap,
                   !.twap_deviation = dev,
                   !.mean_revert_signal = interpret_mean_reversion(dev),
                   !.volatility = vol,
                   !.aggressive_mode = AggressiveMode(bid_px, ask_px, vol),
                   !.sliding_signal = slide[1],
                   !.normalized_slide = slide[2],
                   !.fill_score = FillScore(trend, slide[2])]

\* SignalEngine::process_l2_book
process_l2_book(st, ts, bid_px, ask_px, bid_vol, ask_vol) ==
    LET mid   == FDiv(FAdd(bid_px, ask_px), F(2))
        books == PushCapped(st.book_history,
                            BookSample(ts, mid, bid_px, ask_px, bid_vol, ask_vol),
                            TWAP_WINDOW)
        trend == compute_momentum(books)
        twap  == compute_twap(books)
        dev   == compute_twap_deviation(mid, twap)
        vol   == compute_volatility(books)
        slide == compute_decay_weighted_slide(st.trade_history, ts)
    IN  [st EXCEPT !.book_history = books,
                   !.best_bid = bid_px,
                   !.best_ask = ask_px,
                   !.trend_score = trend,
                   !.twap = twap,
                   !.twap_deviation = dev,
                   !.mean_revert_signal = interpret_mean_reversion(dev),
                   !.volatility = vol,
                   !.aggressive_mode = AggressiveMode(bid_px, ask_px, vol),
                   !.sliding_signal = slide[1],
                   !.normalized_slide = slide[2],
                   !.fill_score = FillScore(trend, slide[2])]

\* mutant: a trade also refreshes the flow-slide fields
process_trade_recomputes(st, price, size, is_buy, ts) ==
    LET trades == PushCapped(st.trade_history, TradeSample(price, size, is_buy, ts),
                             TRADE_WINDOW)
        slide  == compute_decay_weighted_slide(trades, ts)
    IN  [st EXCEPT !.trade_history = trades,
                   !.sliding_signal = slide[1],
                   !.normalized_slide = slide[2]]

\* SignalEngine::process_trade
process_trade(st, price, size, is_buy, ts) ==
    [st EXCEPT !.trade_history =
        PushCapped(st.trade_history, TradeSample(price, size, is_buy, ts), TRADE_WINDOW)]

(***************************************************************************)
(* QuoteLayerManager::build_quotes (lines 219-260).                        *)
(***************************************************************************)
QuoteProposal(side, price, size) == [side |-> side, price |-> price, size |-> size]

\* mutant: the quotes are placed at the touch
SpreadTickNone(signal) == 0

SpreadTick(signal) ==
    LET base_spread == IF signal.aggressive_mode THEN AGGRESSIVE_SPREAD_TICKS ELSE F(2)
    IN  FMul(base_spread, FMin(FAdd(F(1), FMul(signal.volatility, 1000)), F(3)))

VolAdjSize(signal) ==
    FMul(BASE_QUOTE_SIZE,
         FClamp(FDiv(F(1), FAdd(F(1), signal.volatility)), 5000, F(2)))

\* mutant: the aggressive pair is pushed Sell first
build_quotes_sell_first(signal) ==
    LET spread_tick  == SpreadTick(signal)
        vol_adj_size == VolAdjSize(signal)
    IN  IF signal.aggressive_mode
        THEN << QuoteProposal("Sell", FSub(signal.best_ask, spread_tick),
                              FMul(vol_adj_size, 15000)),
                QuoteProposal("Buy", FAdd(signal.best_bid, spread_tick),
                              FMul(vol_adj_size, 15000)) >>
        ELSE IF FGt(signal.fill_score, 1000)
             THEN << QuoteProposal("Buy", FAdd(signal.best_bid, spread_tick),
                                   vol_adj_size) >>
        ELSE IF FLt(signal.fill_score, -1000)
             THEN << QuoteProposal("Sell", FSub(signal.best_ask, spread_tick),
                                   vol_adj_size) >>
        ELSE << >>

\* mutant: in aggressive mode the side follows fill_score when it has a sign
build_quotes_by_score(signal) ==
    LET spread_tick  == SpreadTick(signal)
        vol_adj_size == VolAdjSize(signal)
        buy(sz)  == QuoteProposal("Buy", FAdd(signal.best_bid, spread_tick), sz)
        sell(sz) == QuoteProposal("Sell", FSub(signal.best_ask, spread_tick), sz)
    IN  IF FGt(signal.fill_score, 1000)
        THEN << buy(IF signal.aggressive_mode THEN FMul(vol_adj_size, 15000)
                    ELSE vol_adj_size) >>
        ELSE IF FLt(signal.fill_score, -1000)
        THEN << sell(IF signal.aggressive_mode THEN FMul(vol_adj_size, 15000)
                     ELSE vol_adj_size) >>
        ELSE IF signal.aggressive_mode
        THEN << buy(FMul(vol_adj_size, 15000)), sell(FMul(vol_adj_size, 15000)) >>
        ELSE << >>

\* mutant: outside aggressive mode a signed fill_score quotes both sides
build_quotes_passive_pair(signal) ==
    LET spread_tick  == SpreadTick(signal)
        vol_adj_size == VolAdjSize(signal)
    IN  IF signal.aggressive_mode
        THEN << QuoteProposal("Buy", FAdd(signal.best_bid, spread_tick),
                              FMul(vol_adj_size, 15000)),
                QuoteProposal("Sell", FSub(signal.best_ask, spread_tick),
                              FMul(vol_adj_size, 15000)) >>
        ELSE IF FGt(signal.fill_score, 1000) \/ FLt(signal.fill_score, -1000)
             THEN << QuoteProposal("Buy", FAdd(signal.best_bid, spread_tick),
                                   vol_adj_size),
                     QuoteProposal("Sell", FSub(signal.best_ask, spread_tick),
                                   vol_adj_size) >>
        ELSE << >>

build_quotes(signal) ==
    LET spread_tick  == SpreadTick(signal)
        vol_adj_size == VolAdjSize(signal)
    IN  IF signal.aggressive_mode
        THEN << QuoteProposal("Buy", FAdd(signal.best_bid, spread_tick),
                              FMul(vol_adj_size, 15000)),
                QuoteProposal("Sell", FSub(signal.best_ask, spread_tick),
                              FMul(vol_adj_size, 15000)) >>
        ELSE IF FGt(signal.fill_score, 1000)
             THEN << QuoteProposal("Buy", FAdd(signal.best_bid, spread_tick),
                                   vol_adj_size) >>
        ELSE IF FLt(signal.fill_score, -1000)
             THEN << QuoteProposal("Sell", FSub(signal.best_ask, spread_tick),
                                   vol_adj_size) >>
        ELSE << >>

(***************************************************************************)
(* RiskManager::evaluate (lines 271-296), one pass of its loop body.       *)
(***************************************************************************)
\* the `approved` flag after the two limit checks (lines 273-280)
Approved(position, q, max_position) ==
    /\ ~(q.side = "Buy" /\ FGt(FAdd(position.base, q.size), max_position))
    /\ ~(q.side = "Sell" /\ FLt(FSub(position.base, q.size), FNeg(max_position)))

\* mutant: a Sell debits the quote holdings as a Buy does
ApplyFillDebitOnly(position, q) ==
    IF q.side = "Buy"
    THEN [base  |-> FAdd(position.base, q.size),
          quote |-> FSub(position.quote, FMul(q.size, q.price))]
    ELSE [base  |-> FSub(position.base, q.size),
          quote |-> FSub(position.quote, FMul(q.size, q.price))]

\* the assumed fill (lines 285-291)
ApplyFill(position, q) ==
    IF q.side = "Buy"
    THEN [base  |-> FAdd(position.base, q.size),
          quote |-> FSub(position.quote, FMul(q.size, q.price))]
    ELSE [base  |-> FSub(position.base, q.size),
          quote |-> FAdd(position.quote, FMul(q.size, q.price))]

\* mutant: the fill is applied whether or not the proposal was approved
EvaluateOneAlwaysFills(st, q, max_position) ==
    [st EXCEPT !.position = ApplyFill(st.position, q)]

\* the state after the loop body has run for q
EvaluateOne(st, q, max_position) ==
    IF Approved(st.position, q, max_position)
    THEN [st EXCEPT !.position = ApplyFill(st.position, q)]
    ELSE st

(***************************************************************************)
(* Messages of the feed (hyperliquid_rust_sdk::Message as handle reads     *)
(* it).  A template is a message without its timestamps; the feed stamps   *)
(* it when it sends it.  seq is the position in the channel's send order.  *)
(***************************************************************************)
Level(px, sz) == [px |-> px, sz |-> sz]

L2BookMsg(bids, asks) == [kind |-> "L2Book", levels |-> <<bids, asks>>]

TradeRec(px, sz, side) == [px |-> px, sz |-> sz, side |-> side]

Repeat(x, n) == [i \in 1..n |-> x]

TradesMsg(data) == [kind |-> "Trades", data |-> data]

NoDataMsg == [kind |-> "NoData"]

NoMsg == [kind |-> "None"]

\* book templates
BkTight  == L2BookMsg(<<Level("100.0", "10")>>, <<Level("100.2", "5")>>)
BkWide   == L2BookMsg(<<Level("100.0", "10")>>, <<Level("103.0", "5")>>)
BkNoBids == L2BookMsg(<< >>, <<Level("100.2", "5")>>)
BkNoAsks == L2BookMsg(<<Level("100.0", "10")>>, << >>)
BkBad    == L2BookMsg(<<Level("abc", "10"), Level("100.0", "x")>>, <<Level("100.2", "5")>>)
BkNaN    == L2BookMsg(<<Level("NaN", "10")>>, <<Level("100.2", "5")>>)

\* books with mid prices that are exact in binary: a spread of exactly 2.0
\* (mids 101.0 and 121.0, 20.0 apart), two unparseable prices (mid 0.0), and
\* mids 124.75 and 125.25 (0.25 either side of 125.0)
BkTwo  == L2BookMsg(<<Level("100.0", "10")>>, <<Level("102.0", "5")>>)
BkFar  == L2BookMsg(<<Level("120.0", "10")>>, <<Level("122.0", "5")>>)
BkZero == L2BookMsg(<<Level("abc", "10")>>, <<Level("xyz", "5")>>)
BkLo   == L2BookMsg(<<Level("124.5", "10")>>, <<Level("125.0", "5")>>)
BkHi   == L2BookMsg(<<Level("125.0", "10")>>, <<Level("125.5", "5")>>)

\* trade templates
TrBuy  == TradesMsg(<<TradeRec("100.1", "1.0", "B")>>)
TrSell == TradesMsg(<<TradeRec("100.1", "3.0", "A")>>)
TrBad  == TradesMsg(<<TradeRec("abc", "1.0", "B"), TradeRec("100.1", "", "A")>>)
TrNeg  == TradesMsg(<<TradeRec("100.1", "3.0", "B"), TradeRec("100.1", "-1.0", "A")>>)

\* five trades of size 1.0, alternating buy and sell
TrFive == TradesMsg(<<TradeRec("100.1", "1.0", "B"), TradeRec("100.1", "1.0", "A"),
                      TradeRec("100.1", "1.0", "B"), TradeRec("100.1", "1.0", "A"),
                      TradeRec("100.1", "1.0", "B")>>)

\* the two subscriptions that hold a clone of the sender (lines 358-363)
Producers == {"L2Book", "Trades"}

\* main's own handle: `sender` (line 356) lives until main returns
Main == "main"

TimeStep == 1000

StampRec(r, ts) == [px |-> r.px, sz |-> r.sz, side |-> r.side, time |-> ts]

\* the message the feed sends for template t: the k-th message of its
\* subscription (timestamps are monotonic per feed) and the n-th of the channel
Stamp(t, k, n) ==
    IF t.kind = "L2Book"
    THEN [kind |-> "L2Book", levels |-> t.levels, time |-> k * TimeStep, seq |-> n]
    ELSE IF t.kind = "Trades"
    THEN [kind |-> "Trades",
          data |-> [i \in 1..Len(t.data) |-> StampRec(t.data[i], k * TimeStep)],
          seq |-> n]
    ELSE [kind |-> t.kind, seq |-> n]

(***************************************************************************)
(* State.                                                                  *)
(***************************************************************************)
VARIABLES
    channel,    \* the unbounded mpsc channel: messages sent and not yet received
    sentBy,     \* number of messages each subscription has sent so far
    senders,    \* the UnboundedSender handles not yet dropped
    nrecv,      \* number of messages receiver.recv() has returned
    pc,         \* where the consumer loop of main is
    msg,        \* the message handle is working on
    lock,       \* holder of the Mutex<SignalEngine>: "free", "router", "observer"
    engine,     \* SignalEngine.state
    quotes,     \* the Vec<QuoteProposal> of the book event being handled
    idx,        \* loop index of evaluate's and of the trade loop's iteration
    out,        \* the [Risk] lines printed for the event being handled
    held,       \* history: the position when handle was entered for this event
    bot,        \* trade.rs: BotState, the book in hand and where main's loop is
    strat       \* ws_l2_book.rs: TradeState, the book buffer, the event's locals

vars ==
    <<channel, sentBy, senders, nrecv, pc, msg, lock, engine, quotes, idx, out, held, bot,
      strat>>

\* the variables of trade_new.rs
routerVars ==
    <<channel, sentBy, senders, nrecv, pc, msg, lock, engine, quotes, idx, out, held>>

\* Option::None and Option::Some
None == [some |-> FALSE, val |-> 0]
Some(v) == [some |-> TRUE, val |-> v]

\* trade.rs: BotState as main builds it (lines 136-145), before the first recv
BotInit ==
    [pc |-> "recv", nrecv |-> 0, bid_px |-> 0, ask_px |-> 0, mid |-> 0,
     active_orders |-> {}, position_size |-> 0, net_volume |-> 0,
     realized_pnl |-> 0, cooldown_until |-> None, open_price |-> None,
     trend_score |-> 0, book_history |-> << >>]

\* ws_l2_book.rs: main's state before the first recv (lines 118-125); orders,
\* took_profit, ran and at_entry are history of the event in hand: the orders
\* it sent, whether it took profit, whether it ran the logic, and the position
\* when its entry logic began
StratInit ==
    [pc |-> "recv", nrecv |-> 0, now_ms |-> 0, book_buffer |-> << >>,
     position |-> None, realized_pnl |-> 0, cooldown_until_ms |-> None,
     best_bid |-> 0, best_ask |-> 0, mid_price |-> 0, spread |-> 0,
     slope |-> 0, volatility |-> 0, direction |-> "neutral", pos_dir |-> "none",
     orders |-> << >>, took_profit |-> FALSE, ran |-> FALSE, at_entry |-> None]

Init ==
    /\ channel = << >>
    /\ sentBy = [p \in Producers |-> 0]
    /\ senders = Producers \cup {Main}
    /\ nrecv = 0
    /\ pc = "recv"
    /\ msg = NoMsg
    /\ lock = "free"
    /\ engine = SignalStateDefault
    /\ quotes = << >>
    /\ idx = 0
    /\ out = << >>
    /\ held = PositionDefault
    /\ bot = BotInit
    /\ strat = StratInit

(***************************************************************************)
(* The feed: UnboundedSender::send from either subscription.               *)
(***************************************************************************)
\* number of messages sent into the channel so far
Sent == sentBy["L2Book"] + sentBy["Trades"]

Send(p, t, maxQueue) ==
    /\ p \in senders
    /\ Len(channel) < maxQueue
    /\ channel' = Append(channel, Stamp(t, sentBy[p] + 1, Sent + 1))
    /\ sentBy' = [sentBy EXCEPT ![p] = @ + 1]
    /\ UNCHANGED <<strat, bot, held, senders, nrecv, pc, msg, lock, engine, quotes, idx, out>>

(***************************************************************************)
(* main's loop: while let Some(msg) = receiver.recv().await (line 369).    *)
(***************************************************************************)
\* mutant: the channel hands out the newest message first
ChannelPopNewest(ch) == [item |-> ch[Len(ch)], rest |-> SubSeq(ch, 1, Len(ch) - 1)]

\* what recv() takes off the channel: the message sent first, and what is left
ChannelPop(ch) == [item |-> Head(ch), rest |-> Tail(ch)]

Recv ==
    /\ pc = "recv"
    /\ IF channel # << >>
       THEN \* Some(msg): the loop body runs
            /\ msg' = ChannelPop(channel).item
            /\ channel' = ChannelPop(channel).rest
            /\ nrecv' = nrecv + 1
            /\ out' = << >>
            /\ pc' = "handle"
            /\ held' = engine.position
       ELSE \* None, which recv() returns only once every sender is dropped:
            \* the loop ends and main returns Ok(())
            /\ senders = {}
            /\ pc' = "done"
            /\ UNCHANGED <<strat, bot, channel, msg, nrecv, out, held>>
    /\ UNCHANGED <<strat, bot, senders, sentBy, lock, engine, quotes, idx>>

\* a subscription ends and its clone of the sender is dropped
DropSender(p) ==
    /\ p \in senders
    /\ senders' = senders \ {p}
    /\ UNCHANGED <<strat, bot, held, channel, sentBy, nrecv, pc, msg, lock, engine, quotes, idx, out>>

\* the feed goes away, one subscription at a time
Close == \E p \in Producers : DropSender(p)

(***************************************************************************)
(* MessageRouter::handle (lines 316-349).                                  *)
(***************************************************************************)
Bids(m) == m.levels[1]
Asks(m) == m.levels[2]

\* levels.iter().map(|x| x.sz.parse().unwrap_or(0.0)).sum()
SumSz(levels) == FSum([i \in 1..Len(levels) |-> UnwrapOr(ParseF64(levels[i].sz), 0)])

BidPx(m) == UnwrapOr(ParseF64(Bids(m)[1].px), 0)
AskPx(m) == UnwrapOr(ParseF64(Asks(m)[1].px), 0)
BidVol(m) == SumSz(Bids(m))
AskVol(m) == SumSz(Asks(m))

\* mutant: && in place of ||
SideEmptyBoth(m) == Bids(m) = << >> /\ Asks(m) = << >>

\* if bids.is_empty() || asks.is_empty() { return; }
SideEmpty(m) == Bids(m) = << >> \/ Asks(m) = << >>

\* handle returns; main goes back to recv()
Return ==
    /\ pc' = "recv"
    /\ msg' = NoMsg
    /\ quotes' = << >>
    /\ idx' = 0
    /\ held' = PositionDefault

HandleL2Empty ==
    /\ pc = "handle"
    /\ msg.kind = "L2Book"
    /\ SideEmpty(msg)
    /\ Return
    /\ UNCHANGED <<strat, bot, senders, channel, sentBy, nrecv, lock, engine, out>>

\* self.signal.lock().await succeeds
Acquire(who) ==
    /\ lock = "free"
    /\ lock' = who

HandleL2Lock ==
    /\ pc = "handle"
    /\ msg.kind = "L2Book"
    /\ ~SideEmpty(msg)
    /\ Acquire("router")
    /\ pc' = "l2_process"
    /\ UNCHANGED <<strat, bot, held, senders, channel, sentBy, nrecv, msg, engine, quotes, idx, out>>

\* mutant: the guard is dropped right after process_l2_book
L2ProcessDropsGuard ==
    /\ pc = "l2_process"
    /\ engine' = process_l2_book(engine, msg.time, BidPx(msg), AskPx(msg),
                                 BidVol(msg), AskVol(msg))
    /\ pc' = "l2_quotes"
    /\ lock' = "free"
    /\ UNCHANGED <<strat, bot, held, senders, channel, sentBy, nrecv, msg, quotes, idx, out>>

\* mutant: the quotes are built before the book update is applied
L2ProcessQuotesFirst ==
    /\ pc = "l2_process"
    /\ quotes' = build_quotes(engine)
    /\ engine' = process_l2_book(engine, msg.time, BidPx(msg), AskPx(msg),
                                 BidVol(msg), AskVol(msg))
    /\ idx' = 1
    /\ pc' = "l2_eval"
    /\ UNCHANGED <<strat, bot, held, senders, channel, sentBy, nrecv, msg, lock, out>>

L2Process ==
    /\ pc = "l2_process"
    /\ engine' = process_l2_book(engine, msg.time, BidPx(msg), AskPx(msg),
                                 BidVol(msg), AskVol(msg))
    /\ pc' = "l2_quotes"
    /\ UNCHANGED <<strat, bot, held, senders, channel, sentBy, nrecv, msg, lock, quotes, idx, out>>

\* mutant: building the quotes consumes the fill_score of the snapshot
L2BuildQuotesConsumesScore ==
    /\ pc = "l2_quotes"
    /\ quotes' = build_quotes(engine)
    /\ engine' = [engine EXCEPT !.fill_score = 0]
    /\ idx' = 1
    /\ pc' = "l2_eval"
    /\ UNCHANGED <<strat, bot, held, senders, channel, sentBy, nrecv, msg, lock, out>>

L2BuildQuotes ==
    /\ pc = "l2_quotes"
    /\ quotes' = build_quotes(engine)
    /\ idx' = 1
    /\ pc' = "l2_eval"
    /\ UNCHANGED <<strat, bot, held, senders, channel, sentBy, nrecv, msg, lock, engine, out>>

\* one iteration of `for q in quotes` in RiskManager::evaluate
L2Evaluate ==
    /\ pc = "l2_eval"
    /\ idx <= Len(quotes)
    /\ engine' = EvaluateOne(engine, quotes[idx], POSITION_LIMIT)
    /\ out' = Append(out, [approved |-> Approved(engine.position, quotes[idx], POSITION_LIMIT),
                           q |-> quotes[idx]])
    /\ idx' = idx + 1
    /\ UNCHANGED <<strat, bot, held, senders, channel, sentBy, nrecv, pc, msg, lock, quotes>>

\* mutant: handle returns from the book arm with the guard still held
L2ReleaseKeepsLock ==
    /\ pc = "l2_eval"
    /\ idx > Len(quotes)
    /\ Return
    /\ UNCHANGED <<strat, bot, senders, channel, sentBy, nrecv, lock, engine, out>>

\* the guard `engine` is dropped at the end of the match arm
L2Release ==
    /\ pc = "l2_eval"
    /\ idx > Len(quotes)
    /\ lock' = "free"
    /\ Return
    /\ UNCHANGED <<strat, bot, senders, channel, sentBy, nrecv, engine, out>>

HandleTradesLock ==
    /\ pc = "handle"
    /\ msg.kind = "Trades"
    /\ Acquire("router")
    /\ idx' = 1
    /\ pc' = "tr_loop"
    /\ UNCHANGED <<strat, bot, held, senders, channel, sentBy, nrecv, msg, engine, quotes, out>>

\* one iteration of `for t in trade_msg.data`
TradesPush ==
    /\ pc = "tr_loop"
    /\ idx <= Len(msg.data)
    /\ LET t == msg.data[idx]
       IN  engine' = process_trade(engine,
                                   UnwrapOr(ParseF64(t.px), 0),
                                   UnwrapOr(ParseF64(t.sz), 0),
                                   t.side = "B",
                                   t.time)
    /\ idx' = idx + 1
    /\ UNCHANGED <<strat, bot, held, senders, channel, sentBy, nrecv, pc, msg, lock, quotes, out>>

TradesRelease ==
    /\ pc = "tr_loop"
    /\ idx > Len(msg.data)
    /\ lock' = "free"
    /\ Return
    /\ UNCHANGED <<strat, bot, senders, channel, sentBy, nrecv, engine, out>>

\* mutant: an unrecognized message clears the engine
HandleOtherResets ==
    /\ pc = "handle"
    /\ msg.kind \notin {"L2Book", "Trades"}
    /\ Return
    /\ engine' = SignalStateDefault
    /\ UNCHANGED <<strat, bot, senders, channel, sentBy, nrecv, lock, out>>

\* the `_ => {}` arm
HandleOther ==
    /\ pc = "handle"
    /\ msg.kind \notin {"L2Book", "Trades"}
    /\ Return
    /\ UNCHANGED <<strat, bot, senders, channel, sentBy, nrecv, lock, engine, out>>

(***************************************************************************)
(* Any other holder of a clone of the Arc<Mutex<SignalEngine>> (line 364): *)
(* it takes the lock, reads the state and releases the lock.               *)
(***************************************************************************)
ObserverLock ==
    /\ Acquire("observer")
    /\ UNCHANGED <<strat, bot, held, senders, channel, sentBy, nrecv, pc, msg, engine, quotes, idx, out>>

ObserverUnlock ==
    /\ lock = "observer"
    /\ lock' = "free"
    /\ UNCHANGED <<strat, bot, held, senders, channel, sentBy, nrecv, pc, msg, engine, quotes, idx, out>>

Consumer ==
    \/ Recv
    \/ HandleL2Empty
    \/ HandleL2Lock
    \/ L2Process
    \/ L2BuildQuotes
    \/ L2Evaluate
    \/ L2Release
    \/ HandleTradesLock
    \/ TradesPush
    \/ TradesRelease
    \/ HandleOther

Observer == ObserverLock \/ ObserverUnlock

(***************************************************************************)
(* Specifications.  Spec: every kind of message, short runs.  SpecRisk:    *)
(* well-formed messages only, runs long enough to fill the position limit. *)
(* SpecHist: one book and one trade message, runs long enough to fill both *)
(* history windows.                                                        *)
(***************************************************************************)
MaxSent == 3
MaxQueue == 2

\* what each subscription can deliver
Feed(p) ==
    IF p = "L2Book" THEN {BkTight, BkWide, BkNoBids, BkNoAsks, BkBad, BkNaN, NoDataMsg}
    ELSE {TrBuy, TrSell, TrBad, TrNeg}

Produce ==
    /\ Sent < MaxSent
    /\ \E p \in Producers : \E t \in Feed(p) : Send(p, t, MaxQueue)

Next == Produce \/ Consumer \/ Observer

Spec == Init /\ [][Next]_vars

MaxRiskSent == 7

FeedRisk(p) == IF p = "L2Book" THEN {BkTight, BkWide} ELSE {TrBuy}

ProduceRisk ==
    /\ Sent < MaxRiskSent
    /\ \E p \in Producers : \E t \in FeedRisk(p) : Send(p, t, 1)

ConsumerRisk ==
    \/ Recv
    \/ HandleL2Lock
    \/ L2Process
    \/ L2BuildQuotes
    \/ L2Evaluate
    \/ L2Release
    \/ HandleTradesLock
    \/ TradesPush
    \/ TradesRelease

NextRisk == ProduceRisk \/ ConsumerRisk \/ Observer

SpecRisk == Init /\ [][NextRisk]_vars

MaxHistBooks == 122
MaxHistTrades == 2
TradesPerMsg == 41

TrMany == TradesMsg(Repeat(TradeRec("100.1", "1.0", "B"), TradesPerMsg))

FeedHist(p) == IF p = "L2Book" THEN {BkTight} ELSE {TrMany}

QuotaHist(p) == IF p = "L2Book" THEN MaxHistBooks ELSE MaxHistTrades

ProduceHist ==
    \E p \in Producers :
        /\ sentBy[p] < QuotaHist(p)
        /\ \E t \in FeedHist(p) : Send(p, t, 1)

NextHist == ProduceHist \/ ConsumerRisk \/ Observer

SpecHist == Init /\ [][NextHist]_vars

MaxEdgeSent == 3

FeedEdge(p) ==
    IF p = "L2Book" THEN {BkTwo, BkFar, BkZero, BkLo, BkHi} ELSE {TrFive}

ProduceEdge ==
    /\ Sent < MaxEdgeSent
    /\ \E p \in Producers : \E t \in FeedEdge(p) : Send(p, t, 1)

NextEdge == ProduceEdge \/ ConsumerRisk \/ Observer

SpecEdge == Init /\ [][NextEdge]_vars

MaxCloseSent == 3

FeedClose(p) == IF p = "L2Book" THEN {BkTight, BkNoBids, NoDataMsg} ELSE {TrBuy}

ProduceClose ==
    /\ Sent < MaxCloseSent
    /\ \E p \in Producers : \E t \in FeedClose(p) : Send(p, t, MaxQueue)

NextClose == ProduceClose \/ Close \/ Consumer \/ Observer

\* the runtime keeps polling main's task, so a step of the loop that can be
\* taken is taken; tokio's Mutex hands the lock out in the order of the
\* requests, so a lock() that can succeed again and again does succeed; a
\* holder of the lock releases it.  process_l2_book is synchronous and always
\* runs to its end: its step is enabled whenever pc = "l2_process", so weak
\* fairness of it is that the loop does not stay there.
FairClose ==
    /\ WF_vars(Recv)
    /\ WF_vars(HandleL2Empty)
    /\ WF_vars(HandleOther)
    /\ SF_vars(HandleL2Lock)
    /\ SF_vars(HandleTradesLock)
    /\ []<>(pc # "l2_process")
    /\ WF_vars(L2BuildQuotes)
    /\ WF_vars(L2Evaluate)
    /\ WF_vars(L2Release)
    /\ WF_vars(TradesPush)
    /\ WF_vars(TradesRelease)
    /\ WF_vars(ObserverUnlock)

SpecClose == Init /\ [][NextClose]_vars /\ FairClose

(***************************************************************************)
(* trade.rs, the maker bot: main's loop over the L2 book feed (lines       *)
(* 154-249), one step per stage of the loop body.                          *)
(***************************************************************************)
bot_tick == 1000               \* 0.1
bot_leverage == 200000         \* 20.0
bot_balance == 55000           \* 5.5
bot_max_pos == 100             \* 0.01
bot_trend_threshold == 200     \* 0.02
bot_stop_loss == -30000        \* -3.0
bot_window == 50
bot_trend_min == 3
bot_trend_take == 5

\* the integer nearest to a/b for b > 0, halves away from zero (f64::round)
RoundDiv(a, b) ==
    IF a >= 0 THEN (2 * a + b) \div (2 * b) ELSE -((b - 2 * a) \div (2 * b))

bot_round_to_tick(price, tick_size) ==
    IF IsNaN(price) THEN NaN ELSE RoundDiv(price, tick_size) * tick_size

\* (notional / price * 1000.0).round() / 1000.0: the quotient, kept to 1e-4,
\* rounded to three decimals; a price of zero (an infinity) is outside the
\* modelled range
bot_compute_qty(price, balance, leverage) ==
    LET notional == FMul(balance, leverage)
    IN  IF IsNaN(price) \/ price <= 0 THEN NaN
        ELSE RoundDiv(DivPos(notional, price), Scale \div 1000) * (Scale \div 1000)

\* the percentage change over the last (up to) five samples; the quotient is
\* kept to 1e-4, so the result to 0.01
bot_update_trend(history) ==
    IF Len(history) < bot_trend_min THEN 0
    ELSE LET recent == RevTake(history, bot_trend_take)
             first  == recent[Len(recent)].mid_price
             last   == recent[1].mid_price
         IN  FMul(FDiv(FSub(last, first), first), F(100))

OrderState(side, px, sz, is_bid) == [side |-> side, px |-> px, sz |-> sz, is_bid |-> is_bid]

\* active_orders.contains_key(side)
ContainsKey(b, side) == \E o \in b.active_orders : o.side = side

\* mutant: an order that rests is booked as filled
BotInsertFilled(b, order) ==
    [b EXCEPT !.active_orders = {o \in @ : o.side # order.side} \cup {order},
              !.open_price = Some(order.px),
              !.position_size = FAdd(@, IF order.is_bid THEN order.sz ELSE -order.sz)]

\* active_orders.insert(side, order); open_price = Some(px)
BotInsert(b, order) ==
    [b EXCEPT !.active_orders = {o \in @ : o.side # order.side} \cup {order},
              !.open_price = Some(order.px)]

\* one `if !contains_key(side) { place_maker_order ... }` block; resting is
\* whether the exchange answered Resting
BotQuote(b, side, is_bid, ref_px, resting) ==
    IF ContainsKey(b, side) \/ ~resting THEN b
    ELSE LET px == bot_round_to_tick(ref_px, bot_tick)
             sz == bot_compute_qty(px, bot_balance, bot_leverage)
         IN  BotInsert(b, OrderState(side, px, sz, is_bid))

\* every size of the book parses
SizesParse(m) ==
    \A s \in 1..2 : \A i \in 1..Len(m.levels[s]) : ParseF64(m.levels[s][i].sz).ok

\* the loop's head and the body down to update_trend (lines 154-178)
BotOnMessage(b, m) ==
    LET b1 == [b EXCEPT !.nrecv = @ + 1]
    IN  IF m.kind # "L2Book" THEN [b1 EXCEPT !.pc = "done"]
        ELSE IF SideEmpty(m) THEN b1
        ELSE IF ~ParseF64(Bids(m)[1].px).ok \/ ~ParseF64(Asks(m)[1].px).ok
             THEN [b1 EXCEPT !.pc = "failed"]          \* `?` returns the error
        ELSE IF ~SizesParse(m)
             THEN [b1 EXCEPT !.pc = "panicked"]        \* unwrap() of an Err
        ELSE LET bid_px == ParseF64(Bids(m)[1].px).val
                 ask_px == ParseF64(Asks(m)[1].px).val
                 mid    == FDiv(FAdd(bid_px, ask_px), F(2))
                 books  == PushCapped(b.book_history,
                                      BookSample(m.time, mid, bid_px, ask_px,
                                                 BidVol(m), AskVol(m)),
                                      bot_window)
             IN  [b1 EXCEPT !.pc = "expire",
                            !.bid_px = bid_px, !.ask_px = ask_px, !.mid = mid,
                            !.book_history = books,
                            !.trend_score = bot_update_trend(books)]

MaxBotEvents == 4

FeedBot == {BkTight, BkWide, BkNoBids, BkBad, BkNaN, NoDataMsg,
            L2BookMsg(<<Level("100.0", "x")>>, <<Level("100.2", "5")>>)}

BotRecv ==
    /\ bot.pc = "recv"
    /\ bot.nrecv < MaxBotEvents
    /\ \E t \in FeedBot : bot' = BotOnMessage(bot, Stamp(t, bot.nrecv + 1, bot.nrecv + 1))
    /\ UNCHANGED <<routerVars, strat>>

\* recv() returns None: the subscription has dropped tx
BotRecvNone ==
    /\ bot.pc = "recv"
    /\ bot' = [bot EXCEPT !.pc = "done"]
    /\ UNCHANGED <<routerVars, strat>>

\* the orders older than quote_interval are cancelled and forgotten
BotExpire ==
    /\ bot.pc = "expire"
    /\ \E stale \in SUBSET {o.side : o \in bot.active_orders} :
          bot' = [bot EXCEPT !.active_orders = {o \in @ : o.side \notin stale},
                             !.pc = "stop"]
    /\ UNCHANGED <<routerVars, strat>>

\* let pnl = state.position_size * (mid - open_px), where open_price is Some
BotPnl == FMul(bot.position_size, FSub(bot.mid, bot.open_price.val))

\* if let Some(open_px) = state.open_price { if pnl < -3.0 { ... continue } }
StopLossHit == bot.open_price.some /\ FLt(BotPnl, bot_stop_loss)

BotStopLoss ==
    /\ bot.pc = "stop"
    /\ bot' = IF StopLossHit
              THEN [bot EXCEPT !.active_orders = {}, !.position_size = 0,
                               !.open_price = None, !.pc = "recv"]
              ELSE [bot EXCEPT !.pc = "long"]
    /\ UNCHANGED <<routerVars, strat>>

\* the two inventory guards (lines 201 and 214)
LongGuard == FLt(bot.position_size, bot_max_pos)
ShortGuard == FGt(bot.position_size, -bot_max_pos)

BotEnterLong ==
    /\ bot.pc = "long"
    /\ \E resting \in BOOLEAN :
          bot' = [(IF FGt(bot.trend_score, bot_trend_threshold) /\ LongGuard
                   THEN BotQuote(bot, "bid", TRUE, bot.bid_px, resting)
                   ELSE bot) EXCEPT !.pc = "short"]
    /\ UNCHANGED <<routerVars, strat>>

BotEnterShort ==
    /\ bot.pc = "short"
    /\ \E resting \in BOOLEAN :
          bot' = [(IF FLt(bot.trend_score, -bot_trend_threshold) /\ ShortGuard
                   THEN BotQuote(bot, "ask", FALSE, bot.ask_px, resting)
                   ELSE bot) EXCEPT !.pc = "ping"]
    /\ UNCHANGED <<routerVars, strat>>

\* no trend: both sides; then print_metrics and back to recv
BotPingPong ==
    /\ bot.pc = "ping"
    /\ \E rb \in BOOLEAN, ra \in BOOLEAN :
          bot' = [(IF FLt(FAbs(bot.trend_score), bot_trend_threshold)
                   THEN BotQuote(BotQuote(bot, "bid", TRUE, bot.bid_px, rb),
                                 "ask", FALSE, bot.ask_px, ra)
                   ELSE bot) EXCEPT !.pc = "recv"]
    /\ UNCHANGED <<routerVars, strat>>

NextBot ==
    \/ BotRecv
    \/ BotRecvNone
    \/ BotExpire
    \/ BotStopLoss
    \/ BotEnterLong
    \/ BotEnterShort
    \/ BotPingPong

SpecBot == Init /\ [][NextBot]_vars

(***************************************************************************)
(* ws_l2_book.rs: the trend strategy.  One task: it receives a book,       *)
(* samples it, and with ten samples or more runs the close logic (take     *)
(* profit, then the reversal check of the same match arm) and the entry    *)
(* logic.  Every send_order awaits the exchange and panics unless the      *)
(* order is filled or resting.                                             *)
(***************************************************************************)
strat_trend_slope == 50              \* 0.005
strat_confidence_slope == 40         \* 0.004
strat_take_profit == 500             \* 0.05
strat_cooldown_ms == 10000
strat_max_volatility == 200000       \* 20.0
strat_max_spread == 50000            \* 5.0
strat_imbalance == 2000              \* 0.2
strat_window == 40
strat_min_samples == 10
strat_usd_margin == 110000           \* 11.0
strat_leverage == 200000             \* 20.0
strat_tick_size == 100               \* 0.01
strat_reversal_offset == 10000       \* 1.00

\* the least-squares slope of data against its indices 0, 1, ...; the
\* quotient is rounded to 1e-4
linear_regression_slope(data) ==
    LET n == Len(data)
        sum_x == (n * (n - 1)) \div 2                  \* 0 + 1 + ... + (n-1)
        sum_x2 == ((n - 1) * n * (2 * n - 1)) \div 6   \* and of the squares
        sum_y == FSum(data)
        sum_xy == FSum([i \in 1..n |-> IF IsNaN(data[i]) THEN NaN ELSE (i - 1) * data[i]])
        numerator == FSub(IF IsNaN(sum_xy) THEN NaN ELSE n * sum_xy,
                          IF IsNaN(sum_y) THEN NaN ELSE sum_x * sum_y)
        denominator == n * sum_x2 - sum_x * sum_x
    IN  IF denominator = 0 THEN 0
        ELSE IF IsNaN(numerator) THEN NaN
        ELSE RoundDiv(numerator, denominator)

price_volatility(prices) ==
    LET n == Len(prices)
        mean == FDiv(FSum(prices), F(n))
        variance == FDiv(FSum([i \in 1..n |-> LET d == FSub(prices[i], mean)
                                              IN  FMul(d, d)]), F(n))
    IN  FSqrt(variance)

strat_compute_qty(price, usd_margin, leverage) ==
    LET notional == FMul(usd_margin, leverage)
    IN  IF IsNaN(price) \/ price <= 0 THEN NaN
        ELSE RoundDiv(DivPos(notional, price), Scale \div 1000) * (Scale \div 1000)

\* f64::floor
FFloor(x) == IF IsNaN(x) THEN NaN ELSE (x \div Scale) * Scale

\* (price * precision as f64).round() / precision as f64, precision = 100
adjust_price_for_tick_size(price, tick_size) ==
    IF IsNaN(price) THEN NaN ELSE RoundDiv(price, tick_size) * tick_size

\* the ClientOrderRequest send_order builds
OrderRequest(is_buy, px, qty, reduce_only) ==
    [is_buy |-> is_buy, limit_px |-> px, sz |-> qty, reduce_only |-> reduce_only]

\* (direction, entry price, entry time, extreme price)
StratPosition(dir, price, time) ==
    Some([dir |-> dir, entry_price |-> price, entry_time |-> time, extreme |-> price])

\* the loop's head and the body down to the direction (lines 127-191); the
\* event's history fields start afresh
StratOnBook(s, m) ==
    LET s1 == [s EXCEPT !.nrecv = @ + 1, !.orders = << >>, !.took_profit = FALSE,
                        !.ran = FALSE, !.at_entry = s.position]
    IN  IF m.kind # "L2Book" THEN [s1 EXCEPT !.pc = "done"]
        ELSE IF SideEmpty(m) THEN [s1 EXCEPT !.now_ms = m.time]
        ELSE IF ~ParseF64(Bids(m)[1].px).ok \/ ~ParseF64(Asks(m)[1].px).ok \/ ~SizesParse(m)
             THEN [s1 EXCEPT !.now_ms = m.time, !.pc = "panicked"]   \* unwrap() of an Err
        ELSE LET best_bid  == ParseF64(Bids(m)[1].px).val
                 best_ask  == ParseF64(Asks(m)[1].px).val
                 mid_price == FDiv(FAdd(best_bid, best_ask), F(2))
                 imbalance == FDiv(FSub(BidVol(m), AskVol(m)), FAdd(BidVol(m), AskVol(m)))
                 buffer    == PushCapped(s.book_buffer,
                                         BookSample(m.time, mid_price, best_bid, best_ask,
                                                    BidVol(m), AskVol(m)),
                                         strat_window)
                 slope     == linear_regression_slope(Mids(buffer))
                 trend_direction ==
                     IF FGt(slope, strat_trend_slope) THEN "long"
                     ELSE IF FLt(slope, -strat_trend_slope) THEN "short" ELSE "neutral"
                 volume_direction ==
                     IF FGt(imbalance, strat_imbalance) THEN "long"
                     ELSE IF FLt(imbalance, -strat_imbalance) THEN "short" ELSE "neutral"
                 direction ==
                     IF trend_direction = volume_direction THEN trend_direction
                     ELSE IF trend_direction # "neutral" THEN trend_direction
                     ELSE volume_direction
             IN  IF Len(buffer) < strat_min_samples
                 THEN [s1 EXCEPT !.now_ms = m.time, !.book_buffer = buffer]
                 ELSE [s1 EXCEPT !.now_ms = m.time, !.book_buffer = buffer,
                                 !.best_bid = best_bid, !.best_ask = best_ask,
                                 !.mid_price = mid_price,
                                 !.spread = FSub(best_ask, best_bid),
                                 !.slope = slope,
                                 !.volatility = price_volatility(Mids(buffer)),
                                 !.direction = direction,
                                 !.pos_dir = IF s.position.some THEN s.position.val.dir
                                             ELSE "none",
                                 !.ran = TRUE,
                                 !.pc = IF s.position.some THEN "profit" ELSE "entry"]

\* send_order: the request goes out; the task goes on if the exchange answers
\* filled or resting, and panics on anything else
SendOrder(s, order, ok, then) ==
    IF ok THEN [then EXCEPT !.orders = Append(s.orders, order)]
    ELSE [s EXCEPT !.orders = Append(s.orders, order), !.pc = "panicked"]

MaxStratEvents == 11

FeedStrat ==
    {BkTight,
     L2BookMsg(<<Level("100.2", "5")>>, <<Level("100.4", "5")>>),
     L2BookMsg(<<Level("100.4", "5")>>, <<Level("100.6", "10")>>)}

StratRecv ==
    /\ strat.pc = "recv"
    /\ strat.nrecv < MaxStratEvents
    /\ \E t \in FeedStrat :
          strat' = StratOnBook(strat, Stamp(t, strat.nrecv + 1, strat.nrecv + 1))
    /\ UNCHANGED <<routerVars, bot>>

\* recv() returns None: the subscription has dropped the sender
StratRecvNone ==
    /\ strat.pc = "recv"
    /\ strat' = [strat EXCEPT !.pc = "done"]
    /\ UNCHANGED <<routerVars, bot>>

\* let profit = mid_price - entry_price (long), entry_price - mid_price (short)
Profit(s) ==
    IF s.pos_dir = "long" THEN FSub(s.mid_price, s.position.val.entry_price)
    ELSE FSub(s.position.val.entry_price, s.mid_price)

TakesProfit(s) == s.pos_dir \in {"long", "short"} /\ FGt(Profit(s), strat_take_profit)

\* the profit check of the arm the position selects (lines 198-217, 238-257)
StratTakeProfit ==
    /\ strat.pc = "profit"
    /\ \E ok \in BOOLEAN :
          strat' =
            IF TakesProfit(strat)
            THEN LET paid == [strat EXCEPT !.realized_pnl = FAdd(@, Profit(strat))]
                     exit_price == IF strat.pos_dir = "long" THEN strat.best_bid
                                   ELSE FFloor(strat.best_ask)
                 IN  SendOrder(paid,
                               OrderRequest(strat.pos_dir = "long", exit_price,
                                            strat_compute_qty(strat.mid_price, strat_usd_margin,
                                                              strat_leverage), TRUE),
                               ok,
                               [paid EXCEPT !.position = None,
                                            !.cooldown_until_ms =
                                                Some(strat.now_ms + strat_cooldown_ms),
                                            !.took_profit = TRUE,
                                            !.pc = "reversal"])
            ELSE [strat EXCEPT !.pc = "reversal"]
    /\ UNCHANGED <<routerVars, bot>>

\* the slope has turned against the arm's direction
Reverses(s) ==
    \/ s.pos_dir = "long" /\ FLt(s.slope, -strat_trend_slope)
    \/ s.pos_dir = "short" /\ FGt(s.slope, strat_trend_slope)

\* the reversal check of the same arm (lines 219-236, 259-277)
StratReversal ==
    /\ strat.pc = "reversal"
    /\ \E ok \in BOOLEAN :
          strat' =
            IF Reverses(strat)
            THEN LET long == strat.pos_dir = "long"
                     price == IF long THEN FSub(strat.best_bid, strat_reversal_offset)
                              ELSE FAdd(strat.best_bid, strat_reversal_offset)
                     opened == IF long
                               THEN StratPosition("short", strat.best_bid, strat.now_ms)
                               ELSE StratPosition("long", strat.best_ask, strat.now_ms)
                 IN  SendOrder(strat,
                               OrderRequest(~long, FFloor(price),
                                            strat_compute_qty(strat.mid_price, strat_usd_margin,
                                                              strat_leverage), FALSE),
                               ok,
                               [strat EXCEPT !.position = opened, !.at_entry = opened,
                                             !.pc = "entry"])
            ELSE [strat EXCEPT !.at_entry = strat.position, !.pc = "entry"]
    /\ UNCHANGED <<routerVars, bot>>

\* the side the entry logic opens, "none" when it opens nothing; can_enter is
\* cooldown_until_ms.map_or(true, |until| now_ms >= until)
Enters(s) ==
    LET can_enter == ~s.cooldown_until_ms.some \/ s.now_ms >= s.cooldown_until_ms.val
        confidence == /\ FGt(FAbs(s.slope), strat_confidence_slope)
                      /\ FLt(s.volatility, strat_max_volatility)
    IN
    IF ~(~s.position.some /\ can_enter /\ confidence) THEN "none"
    ELSE IF s.direction = "long" /\ FLt(s.spread, strat_max_spread) THEN "long"
    ELSE IF s.direction = "short" /\ FLt(s.spread, strat_max_spread) THEN "short"
    ELSE "none"

\* the entry logic (lines 283-336), then the status line and back to recv
StratEntry ==
    /\ strat.pc = "entry"
    /\ \E ok \in BOOLEAN :
          strat' =
            IF Enters(strat) = "none" THEN [strat EXCEPT !.pc = "recv"]
            ELSE LET long == Enters(strat) = "long"
                     taker_price == IF long THEN FSub(strat.best_ask, strat_reversal_offset)
                                    ELSE FAdd(strat.best_bid, strat_reversal_offset)
                     adjusted_price == adjust_price_for_tick_size(taker_price, strat_tick_size)
                 IN  SendOrder(strat,
                               OrderRequest(long, FFloor(adjusted_price),
                                            strat_compute_qty(strat.mid_price, strat_usd_margin,
                                                              strat_leverage), FALSE),
                               ok,
                               [strat EXCEPT !.position =
                                                 IF long
                                                 THEN StratPosition("long", strat.best_ask,
                                                                    strat.now_ms)
                                                 ELSE StratPosition("short", strat.best_bid,
                                                                    strat.now_ms),
                                             !.pc = "recv"])
    /\ UNCHANGED <<routerVars, bot>>

NextStrat ==
    \/ StratRecv
    \/ StratRecvNone
    \/ StratTakeProfit
    \/ StratReversal
    \/ StratEntry

SpecStrat == Init /\ [][NextStrat]_vars

(***************************************************************************)
(* Claims.                                                                 *)
(***************************************************************************)
\* the step of the consumer that leaves position `at`
Leaves(at) == pc = at /\ pc' # at

\* one iteration of evaluate's loop
EvalStep == pc = "l2_eval" /\ idx' = idx + 1

\* the decision the step just printed
LastOut(o) == o[Len(o)]

\* C1: in every reachable state the base position b satisfies -M <= b <= M
\* for M = POSITION_LIMIT = 5.0.
C1_BaseWithinLimit ==
    /\ FLe(-50000, engine.position.base)
    /\ FLe(engine.position.base, 50000)

\* C2: book_history never holds more than 120 samples and trade_history never
\* more than 80; each push puts the new sample last, and a push onto a full
\* window removes exactly the oldest sample and keeps the order of the rest.
FifoPushed(old, new, cap) ==
    /\ Len(new) <= cap
    /\ Len(new) >= 1
    /\ new = IF Len(old) < cap THEN Append(old, new[Len(new)])
             ELSE Append(Tail(old), new[Len(new)])

C2_HistoryFifo ==
    [][ /\ Len(engine'.book_history) <= 120
        /\ Len(engine'.trade_history) <= 80
        /\ Leaves("l2_process") =>
              /\ FifoPushed(engine.book_history, engine'.book_history, 120)
              /\ LastOut(engine'.book_history).timestamp_ms = msg.time
        /\ (pc = "tr_loop" /\ idx' = idx + 1) =>
              /\ FifoPushed(engine.trade_history, engine'.trade_history, 80)
              /\ LastOut(engine'.trade_history).timestamp_ms = msg.data[idx].time
      ]_vars

\* both windows are full and both have evicted: the oldest book sample is not
\* the first one pushed, and the second trade message lies whole in the window
C2_Witness ==
    /\ pc = "recv"
    /\ Len(engine.book_history) = 120
    /\ engine.book_history[1].timestamp_ms > TimeStep
    /\ Len(engine.trade_history) = 80
    /\ engine.trade_history[1].timestamp_ms = TimeStep
    /\ engine.trade_history[81 - TradesPerMsg].timestamp_ms = 2 * TimeStep

\* C3: from the lock's acquisition to the end of the event the router holds
\* the engine lock without a gap, for a book event (process, build quotes,
\* evaluate) and for a trade event (all its records), so nobody else who takes
\* the lock sees a state between two steps of one event.
C3_AtomicEvent ==
    /\ pc \in {"l2_process", "l2_quotes", "l2_eval", "tr_loop"} => lock = "router"
    /\ lock = "observer" => pc \in {"recv", "handle"}

\* the router is between the two proposals of one book event
C3_Witness ==
    /\ pc = "l2_eval"
    /\ Len(quotes) = 2
    /\ idx = 2
    /\ lock = "router"

\* C4: a message starts being handled only when no other is being handled
\* (the previous one has completed), and it is the next one in send order,
\* whichever producer sent it.
C4_FifoOneAtATime ==
    [][ (msg' # msg /\ msg' # NoMsg) =>
            /\ pc = "recv"
            /\ msg = NoMsg
            /\ msg'.seq = nrecv + 1
            /\ nrecv' = nrecv + 1
            /\ \A i \in 1..Len(channel') : channel'[i].seq = nrecv' + i
      ]_vars

\* the second message is being handled while a third, from the other
\* producer, waits
C4_Witness ==
    /\ pc = "handle"
    /\ msg.seq = 2
    /\ Len(channel) = 1
    /\ channel[1].kind # msg.kind
    /\ sentBy["L2Book"] >= 1
    /\ sentBy["Trades"] >= 1

\* C5: a Buy is admitted iff base + size <= M, a Sell iff base - size >= -M,
\* with the base current when the proposal is evaluated.
C5_AdmitIff ==
    [][ EvalStep =>
          LET q        == quotes[idx]
              base     == engine.position.base
              admitted == LastOut(out').approved
          IN  /\ q.side = "Buy" => (admitted <=> FLe(FAdd(base, q.size), 50000))
              /\ q.side = "Sell" => (admitted <=> FGe(FSub(base, q.size), -50000))
      ]_vars

\* C6: an admitted Buy adds size to base and subtracts size*price from quote,
\* an admitted Sell subtracts size from base and adds size*price to quote;
\* no other field of the snapshot changes.
C6_FillOnAdmission ==
    [][ (EvalStep /\ LastOut(out').approved) =>
          LET q == quotes[idx]
              p == engine.position
          IN  engine' = [engine EXCEPT !.position =
                  IF q.side = "Buy"
                  THEN [base  |-> FAdd(p.base, q.size),
                        quote |-> FSub(p.quote, FMul(q.size, q.price))]
                  ELSE [base  |-> FSub(p.base, q.size),
                        quote |-> FAdd(p.quote, FMul(q.size, q.price))]]
      ]_vars

\* a Sell has just been admitted at a nonzero base
C6_Witness ==
    /\ pc = "l2_eval"
    /\ Len(out) = 2
    /\ out[2].approved
    /\ out[2].q.side = "Sell"
    /\ out[1].approved
    /\ engine.position.quote # 0

\* C7: a rejected proposal changes nothing of the engine; the loop moves on to
\* the next proposal and never comes back to it (one decision per proposal when
\* the event ends), and the proposals of an event are those built from that
\* event's snapshot alone.
C7_RejectionTerminal ==
    [][ /\ (EvalStep /\ ~LastOut(out').approved) =>
              /\ engine' = engine
              /\ quotes' = quotes
              /\ pc' = pc
        /\ EvalStep => (Len(out') = idx /\ out'[idx].q = quotes[idx])
        /\ Leaves("l2_eval") => Len(out) = Len(quotes)
        /\ pc' = "l2_eval" => quotes' = build_quotes(engine')
        /\ pc' # "l2_eval" => quotes' = << >>
      ]_vars

\* a Buy was rejected at the limit and a later proposal of the same event admitted
C7_Witness ==
    /\ pc = "l2_eval"
    /\ Len(out) = 2
    /\ ~out[1].approved
    /\ out[2].approved

\* C8: on a fresh engine a first book event 100.0 / 100.2 gives volatility 0 and
\* aggressive mode, the proposals Buy 100.5 x 1.5 then Sell 99.7 x 1.5, both
\* admitted, base going 0 -> 1.5 -> 0.
FirstIsTight ==
    /\ nrecv = 1
    /\ msg.kind = "L2Book"
    /\ msg.levels = <<<<Level("100.0", "10")>>, <<Level("100.2", "5")>>>>

C8_EndToEnd ==
    FirstIsTight =>
        /\ pc \in {"l2_quotes", "l2_eval"} =>
              /\ engine.volatility = 0
              /\ engine.aggressive_mode
        /\ pc = "l2_eval" =>
              /\ quotes = << [side |-> "Buy", price |-> 1005000, size |-> 15000],
                             [side |-> "Sell", price |-> 997000, size |-> 15000] >>
              /\ idx = 1 => engine.position.base = 0
              /\ idx = 2 => (out[1].approved /\ engine.position.base = 15000)
              /\ idx = 3 => (out[2].approved /\ engine.position.base = 0)

C8_Witness ==
    /\ FirstIsTight
    /\ pc = "l2_eval"
    /\ idx = 3
    /\ Len(out) = 2

\* C9: a book event with no bid levels or no ask levels is dropped: the engine
\* (histories, signals, position) is as before, no quotes are built, the risk
\* gate prints nothing, the lock is not taken.
EmptySideBook(m) ==
    /\ m.kind = "L2Book"
    /\ (m.levels[1] = << >> \/ m.levels[2] = << >>)

C9_EmptySideDropped ==
    [][ (EmptySideBook(msg) /\ Leaves("handle")) =>
            /\ pc' = "recv"
            /\ engine' = engine
            /\ quotes' = << >>
            /\ out' = << >>
            /\ lock' = lock
      ]_vars

\* an engine that has already handled a book event is about to drop one
C9_Witness ==
    /\ pc = "handle"
    /\ EmptySideBook(msg)
    /\ engine.book_history # << >>
    /\ engine.position.quote # 0

\* C10: a book event with both sides non-empty and a field that fails to parse
\* is handled in full, the field being 0.0: one sample is pushed, the signals
\* are recomputed from it, quotes are built and every one is evaluated.
FieldOrZero(s) == IF ParseF64(s).ok THEN ParseF64(s).val ELSE 0

Malformed(m) ==
    /\ m.kind = "L2Book"
    /\ m.levels[1] # << >>
    /\ m.levels[2] # << >>
    /\ \/ ~ParseF64(m.levels[1][1].px).ok
       \/ ~ParseF64(m.levels[2][1].px).ok
       \/ \E s \in 1..2 : \E i \in 1..Len(m.levels[s]) : ~ParseF64(m.levels[s][i].sz).ok

VolOrZero(levels) == FSum([i \in 1..Len(levels) |-> FieldOrZero(levels[i].sz)])

C10_MalformedRuns ==
    [][ Malformed(msg) =>
          /\ Leaves("handle") => pc' = "l2_process"
          /\ Leaves("l2_process") =>
                /\ pc' = "l2_quotes"
                /\ Len(engine'.book_history) = Len(engine.book_history) + 1
                /\ engine' = process_l2_book(engine, msg.time,
                                             FieldOrZero(msg.levels[1][1].px),
                                             FieldOrZero(msg.levels[2][1].px),
                                             VolOrZero(msg.levels[1]),
                                             VolOrZero(msg.levels[2]))
          /\ Leaves("l2_quotes") => (pc' = "l2_eval" /\ quotes' = build_quotes(engine))
          /\ Leaves("l2_eval") => (pc' = "recv" /\ Len(out) = Len(quotes))
      ]_vars

\* the malformed bid price became 0.0 and a proposal built from it was evaluated
C10_Witness ==
    /\ Malformed(msg)
    /\ pc = "l2_eval"
    /\ engine.best_bid = 0
    /\ LastOut(engine.book_history).bid_volume = 100000
    /\ Len(quotes) = 1
    /\ Len(out) = 1

\* one iteration of the trade loop
TradeStep == pc = "tr_loop" /\ idx' = idx + 1

\* C11: on_trade is called once, in record order, for each trade record whose
\* price and size parse, and is not called for a record whose price or size
\* fails to parse: such a record adds no TradeSample to trade_history.
RecordParses(t) == ParseF64(t.px).ok /\ ParseF64(t.sz).ok

C11_ParseableOnly ==
    [][ TradeStep =>
          LET t == msg.data[idx]
          IN  IF RecordParses(t)
              THEN /\ FifoPushed(engine.trade_history, engine'.trade_history, 80)
                   /\ LastOut(engine'.trade_history) =
                          [price |-> ParseF64(t.px).val, size |-> ParseF64(t.sz).val,
                           is_buy |-> (t.side = "B"), timestamp_ms |-> t.time]
              ELSE engine'.trade_history = engine.trade_history
      ]_vars

\* C12: an event that is neither a book nor a trade event is ignored: the
\* engine (histories, signals, position) is as before, nothing is built or
\* printed, the lock is not taken, and the loop goes back to recv.
Unrecognized(m) == m.kind \notin {"L2Book", "Trades", "None"}

C12_OtherIgnored ==
    [][ (Unrecognized(msg) /\ Leaves("handle")) =>
            /\ pc' = "recv"
            /\ engine' = engine
            /\ lock' = lock
            /\ out' = out
            /\ quotes' = << >>
            /\ channel' = channel
      ]_vars

\* an engine with a history and holdings is about to ignore an event while
\* the next one waits
C12_Witness ==
    /\ pc = "handle"
    /\ Unrecognized(msg)
    /\ engine.book_history # << >>
    /\ engine.position.quote # 0
    /\ channel # << >>

\* C13: on_trade changes trade_history and nothing else of the engine; the
\* flow-slide fields keep their values until the next book update, which
\* computes them from the trade history of that moment.
C13_TradeOnlyHistory ==
    [][ /\ TradeStep =>
              /\ engine' = [engine EXCEPT !.trade_history = engine'.trade_history]
              /\ engine'.trade_history # engine.trade_history
        /\ Leaves("l2_process") =>
              LET slide == compute_decay_weighted_slide(engine.trade_history, msg.time)
              IN  /\ engine'.sliding_signal = slide[1]
                  /\ engine'.normalized_slide = slide[2]
                  /\ engine'.trade_history = engine.trade_history
      ]_vars

\* after a book update a trade has been pushed and the flow-slide fields are
\* not those of the trade history now held
C13_Witness ==
    /\ pc = "tr_loop"
    /\ idx = 2
    /\ engine.book_history # << >>
    /\ engine.trade_history # << >>
    /\ engine.normalized_slide #
           compute_decay_weighted_slide(engine.trade_history,
                                        LastOut(engine.book_history).timestamp_ms)[2]

\* C14: the position changes only in an admitting iteration of the risk gate:
\* no other step (book update, trade, build_quotes, dropped or ignored event,
\* the end of an event) changes or resets it.
C14_PositionOnlyByGate ==
    [][ engine'.position # engine.position =>
            /\ EvalStep
            /\ LastOut(out').approved
      ]_vars

\* holdings left by an earlier event are still there while a later trade
\* event is being handled
C14_Witness ==
    /\ pc = "tr_loop"
    /\ idx = 2
    /\ engine.position.base # 0
    /\ engine.position.quote # 0
    /\ nrecv >= 2

\* C15: after on_book_update every derived signal field is the value computed
\* from the history windows now held and the event's inputs, and none depends
\* on what the signal fields were before: an engine with the same histories
\* and other signal fields ends with the same signal fields.
OtherSignals(st) ==
    { [st EXCEPT !.trend_score = a, !.twap = a, !.twap_deviation = a,
                 !.mean_revert_signal = "Fade breakout", !.volatility = a,
                 !.aggressive_mode = b, !.sliding_signal = a,
                 !.normalized_slide = a, !.fill_score = a,
                 !.best_bid = a, !.best_ask = a] :
        a \in {-10000, 1234, NaN}, b \in BOOLEAN }

C15_SignalsDerived ==
    [][ Leaves("l2_process") =>
          LET bid == BidPx(msg)
              ask == AskPx(msg)
              mid == FDiv(FAdd(bid, ask), F(2))
              e   == engine'
              fl  == compute_decay_weighted_slide(e.trade_history, msg.time)
          IN  /\ e.best_bid = bid
              /\ e.best_ask = ask
              /\ e.trend_score = compute_momentum(e.book_history)
              /\ e.twap = compute_twap(e.book_history)
              /\ e.twap_deviation = compute_twap_deviation(mid, e.twap)
              /\ e.mean_revert_signal = interpret_mean_reversion(e.twap_deviation)
              /\ e.volatility = compute_volatility(e.book_history)
              /\ e.aggressive_mode = AggressiveMode(bid, ask, e.volatility)
              /\ e.sliding_signal = fl[1]
              /\ e.normalized_slide = fl[2]
              /\ e.fill_score = FillScore(e.trend_score, e.normalized_slide)
              /\ \A other \in OtherSignals(engine) :
                    process_l2_book(other, msg.time, bid, ask,
                                    BidVol(msg), AskVol(msg)) = e
      ]_vars

\* a second book update has replaced a nonzero trend score, a Fade breakout
\* and a nonzero volatility left by the first two
C15_Witness ==
    /\ pc = "l2_quotes"
    /\ Len(engine.book_history) = 3
    /\ engine.book_history[2].mid_price # engine.book_history[1].mid_price
    /\ engine.book_history[3].mid_price = engine.book_history[1].mid_price
    /\ engine.trend_score = 0
    /\ engine.volatility # 0
    /\ ~IsNaN(engine.volatility)

\* C16: build_quotes leaves the snapshot (histories, signals, position) as it
\* was, starts from nothing kept by an earlier call, and its result is the
\* function of the snapshot alone.
C16_BuildQuotesPure ==
    [][ Leaves("l2_quotes") =>
            /\ engine' = engine
            /\ quotes = << >>
            /\ quotes' = build_quotes(engine')
            /\ out' = out
            /\ lock' = lock
      ]_vars

\* the second book event of a run has its quotes built, the first one having
\* produced two
C16_Witness ==
    /\ pc = "l2_eval"
    /\ idx = 1
    /\ Len(engine.book_history) = 2
    /\ engine.position.quote # 0
    /\ quotes # << >>

\* C17: in aggressive mode build_quotes returns exactly two proposals, Buy
\* first then Sell, whatever fill_score is: Buy at best_bid + spread_tick,
\* Sell at best_ask - spread_tick, each of 1.5 times the volatility-adjusted
\* size.
C17_AggressivePair ==
    (pc = "l2_eval" /\ engine.aggressive_mode) =>
        LET tick == FMul(5000, FMin(FAdd(F(1), FMul(engine.volatility, 1000)), F(3)))
            size == FMul(FMul(F(1), FClamp(FDiv(F(1), FAdd(F(1), engine.volatility)),
                                           5000, F(2))),
                         15000)
        IN  quotes = << [side |-> "Buy", price |-> FAdd(engine.best_bid, tick),
                         size |-> size],
                        [side |-> "Sell", price |-> FSub(engine.best_ask, tick),
                         size |-> size] >>

\* aggressive mode with a signed fill_score: both sides are quoted
C17_Witness ==
    /\ pc = "l2_eval"
    /\ engine.aggressive_mode
    /\ engine.fill_score = -10000
    /\ Len(quotes) = 2
    /\ quotes[1].side = "Buy"

\* C18: in aggressive mode the Buy price best_bid + spread_tick and the Sell
\* price best_ask - spread_tick both lie between best_bid and best_ask.
Between(lo, x, hi) == FLe(lo, x) /\ FLe(x, hi)

C18_InsideSpread ==
    (pc = "l2_eval" /\ engine.aggressive_mode) =>
        \A i \in 1..Len(quotes) :
            Between(engine.best_bid, quotes[i].price, engine.best_ask)

\* C19: outside aggressive mode build_quotes returns one Buy at
\* best_bid + spread_tick with the plain size if fill_score > 0.1, one Sell at
\* best_ask - spread_tick with the plain size if fill_score < -0.1, and nothing
\* otherwise.
C19_PassiveOneSide ==
    (pc = "l2_eval" /\ ~engine.aggressive_mode) =>
        LET tick == FMul(F(2), FMin(FAdd(F(1), FMul(engine.volatility, 1000)), F(3)))
            size == FMul(F(1), FClamp(FDiv(F(1), FAdd(F(1), engine.volatility)),
                                      5000, F(2)))
        IN  /\ Len(quotes) <= 1
            /\ FGt(engine.fill_score, 1000) =>
                  quotes = << [side |-> "Buy", price |-> FAdd(engine.best_bid, tick),
                               size |-> size] >>
            /\ FLt(engine.fill_score, -1000) =>
                  quotes = << [side |-> "Sell", price |-> FSub(engine.best_ask, tick),
                               size |-> size] >>
            /\ (~FGt(engine.fill_score, 1000) /\ ~FLt(engine.fill_score, -1000)) =>
                  quotes = << >>

\* a wide book with selling pressure: one Sell of the plain size
C19_Witness ==
    /\ pc = "l2_eval"
    /\ ~engine.aggressive_mode
    /\ engine.fill_score = -10000
    /\ Len(quotes) = 1
    /\ quotes[1].side = "Sell"
    /\ quotes[1].size = 10000

\* C20: compute_momentum is the mid price of the newest sample minus that of
\* the oldest among the (up to) 10 most recent, and 0 for fewer than 2
\* samples; nothing older than the 10 most recent affects it.
NewestMinusOldest(hist) ==
    LET n == Len(hist)
        k == IF n < 10 THEN n ELSE 10
    IN  IF n < 2 THEN 0
        ELSE FSub(hist[n].mid_price, hist[n - k + 1].mid_price)

C20_MomentumEnds ==
    pc = "l2_quotes" => engine.trend_score = NewestMinusOldest(engine.book_history)

\* the book update of the event in hand has been applied
Updated == pc \in {"l2_quotes", "l2_eval"}

\* the sign of a nonzero number, 0 for zero
Sign(x) == IF x > 0 THEN F(1) ELSE IF x < 0 THEN -F(1) ELSE 0

\* C21: fill_score is sign(tanh(momentum)) whenever |tanh(momentum)| > 0.1,
\* whatever normalized_slide is; otherwise sign(normalized_slide) whenever
\* |normalized_slide| > 0.4; otherwise 0.  It is always one of -1, 0, +1.
C21_TrendFirst ==
    /\ engine.fill_score \in {-F(1), 0, F(1)}
    /\ Updated =>
          LET th == FTanh(engine.trend_score)
              ns == engine.normalized_slide
          IN  IF FGt(FAbs(th), 1000) THEN engine.fill_score = Sign(th)
              ELSE IF FGt(FAbs(ns), 4000) THEN engine.fill_score = Sign(ns)
              ELSE engine.fill_score = 0

\* a rising trend against selling pressure: the trend decides
C21_Witness ==
    /\ Updated
    /\ FGt(FTanh(engine.trend_score), 1000)
    /\ FLt(engine.normalized_slide, -4000)
    /\ engine.fill_score = F(1)

\* C22: after every book update normalized_slide lies in [-1, 1] whenever the
\* total weight of the trade history is positive, whatever records the router
\* has put into the history.
C22_SlideBounded ==
    (Updated /\ AboveTiny(FSum(TotalTerms(engine.trade_history, msg.time)))) =>
        /\ FLe(-F(1), engine.normalized_slide)
        /\ FLe(engine.normalized_slide, F(1))

\* the newest sample of the book window
NewestBook == LastOut(engine.book_history)

\* C23: on each book update aggressive_mode is (ask_px - bid_px <= 2.0) and
\* (volatility < 10.0), the volatility being that of the book history with
\* the new sample in it; a spread of exactly 2.0 qualifies, a volatility of
\* exactly 10.0 does not.
C23_AggressiveExact ==
    Updated =>
        LET spread == FSub(NewestBook.best_ask, NewestBook.best_bid)
            vol    == compute_volatility(engine.book_history)
        IN  /\ NewestBook.timestamp_ms = msg.time
            /\ engine.volatility = vol
            /\ engine.aggressive_mode = (FLe(spread, 20000) /\ FLt(vol, 100000))
            /\ (spread = 20000 /\ FLt(vol, 100000)) => engine.aggressive_mode
            /\ vol = 100000 => ~engine.aggressive_mode

\* a spread of exactly 2.0 with a volatility of exactly 10.0: not aggressive,
\* where the same spread on the first sample (volatility 0) was
C23_Witness ==
    /\ Updated
    /\ Len(engine.book_history) = 2
    /\ FSub(engine.best_ask, engine.best_bid) = 20000
    /\ engine.volatility = 100000
    /\ ~engine.aggressive_mode
    /\ Len(quotes) <= 1

\* C24: compute_twap is the arithmetic mean of the mid prices of the n samples
\* of the book window (n <= 120) and 0 for an empty window; the TWAP of the
\* snapshot is always a mean over at least one sample.
MeanMid(hist) == FDiv(FSum([i \in 1..Len(hist) |-> hist[i].mid_price]), F(Len(hist)))

C24_TwapIsMean ==
    /\ compute_twap(<< >>) = 0
    /\ Updated =>
          /\ Len(engine.book_history) >= 1
          /\ Len(engine.book_history) <= 120
          /\ engine.twap = MeanMid(engine.book_history)

\* the mean of three different mid prices
C24_Witness ==
    /\ Updated
    /\ Len(engine.book_history) = 3
    /\ \A i \in 1..3 : engine.twap # engine.book_history[i].mid_price
    /\ engine.book_history[1].mid_price # engine.book_history[2].mid_price
    /\ engine.twap > 0

\* C25: compute_twap_deviation(p, t) is 0 when |t| < 1e-6 and (p - t)/t
\* otherwise, so a TWAP of zero never makes it divide by zero.
C25_DeviationGuarded ==
    Updated =>
        LET p == NewestBook.mid_price
            t == engine.twap
        IN  /\ engine.twap_deviation =
                   IF FLt(FAbs(t), 1) THEN 0 ELSE FDiv(FSub(p, t), t)
            /\ t = 0 => engine.twap_deviation = 0

\* a book whose prices both fail to parse: mid price and TWAP are 0.0
C25_Witness ==
    /\ Updated
    /\ engine.twap = 0
    /\ NewestBook.mid_price = 0
    /\ engine.twap_deviation = 0

\* C26: a deviation above 0.002 is "Fade breakout", below -0.002 "Scalp
\* retracement", anything else, exactly +0.002 and -0.002 included, "Neutral";
\* after a book update the classification is one of these three.
C26_ThreeWay ==
    Updated =>
        LET d == engine.twap_deviation
        IN  /\ engine.mean_revert_signal \in
                   {"Fade breakout", "Scalp retracement", "Neutral"}
            /\ FGt(d, 20) => engine.mean_revert_signal = "Fade breakout"
            /\ FLt(d, -20) => engine.mean_revert_signal = "Scalp retracement"
            /\ (~FGt(d, 20) /\ ~FLt(d, -20)) => engine.mean_revert_signal = "Neutral"

\* a deviation of exactly 0.002 (mid 125.25 over a TWAP of 125.0) is Neutral
C26_Witness ==
    /\ Updated
    /\ engine.twap = 1250000
    /\ engine.twap_deviation = 20
    /\ engine.mean_revert_signal = "Neutral"

\* C27: a trade stamped at or after the book update has age 0 and weight
\* exactly 1: for 5 trades of size 1.0 alternating buy/sell at the timestamp
\* of the update, weighted_total is 5.0, weighted_net is (buys - sells) * 1.0
\* and normalized_slide is weighted_net / 5.0.
NotOlder(trades, now) == \A i \in 1..Len(trades) : trades[i].timestamp_ms >= now

Signed(tr) == IF tr.is_buy THEN tr.size ELSE -tr.size

C27_AgeZeroWeightOne ==
    (Updated /\ NotOlder(engine.trade_history, msg.time)) =>
        LET trades == engine.trade_history
            net    == FSum([i \in 1..Len(trades) |-> Signed(trades[i])])
            total  == FSum([i \in 1..Len(trades) |-> trades[i].size])
        IN  /\ engine.sliding_signal = net
            /\ FSum(TotalTerms(trades, msg.time)) = total
            /\ total > 0 => engine.normalized_slide = FDiv(net, total)
            /\ (Len(trades) = 5 /\ \A i \in 1..5 :
                    trades[i].size = F(1) /\ trades[i].is_buy = (i % 2 = 1)) =>
                  /\ total = F(5)
                  /\ engine.sliding_signal = F(3 - 2)
                  /\ engine.normalized_slide = 2000

\* the five alternating trades, stamped as the book update is
C27_Witness ==
    /\ Updated
    /\ Len(engine.trade_history) = 5
    /\ \A i \in 1..5 : engine.trade_history[i].timestamp_ms = msg.time
    /\ engine.sliding_signal = F(1)
    /\ engine.normalized_slide = 2000

\* every subscription has dropped its sender
ProducersGone == senders \cap Producers = {}

\* C28: the consumer loop ends exactly when the event source is closed: while
\* a producer is left or an event is queued it does not end, and once all
\* producers are gone and the queue is drained, recv() returns and the loop
\* ends.
C28_ExitsWhenClosed ==
    /\ pc = "done" => (ProducersGone /\ channel = << >>)
    /\ (ProducersGone /\ channel = << >> /\ pc = "recv") => ENABLED Recv

\* C29: within one book event the steps run in the order ingest, recompute,
\* quote, risk check: the proposals the risk gate sees are those built from
\* the snapshot as this event's book update left it, and each is decided
\* against the position as it then stands, which the update and the quoting
\* did not touch.
C29_PipelineOrder ==
    [][ /\ Leaves("l2_process") =>
              /\ pc' = "l2_quotes"
              /\ LastOut(engine'.book_history).timestamp_ms = msg.time
              /\ engine'.position = engine.position
              /\ quotes' = << >>
        /\ Leaves("l2_quotes") =>
              /\ pc' = "l2_eval"
              /\ NewestBook.timestamp_ms = msg.time
              /\ quotes' = build_quotes(engine)
              /\ engine'.position = engine.position
              /\ out' = << >>
        /\ EvalStep =>
              /\ quotes = build_quotes(engine)
              /\ LastOut(out').approved =
                     Approved(engine.position, quotes[idx], POSITION_LIMIT)
        /\ Leaves("l2_eval") => pc' = "recv"
      ]_vars

\* a later book event reaches the risk gate with holdings left by an earlier
\* one and proposals of its own
C29_Witness ==
    /\ pc = "l2_eval"
    /\ idx = 1
    /\ Len(engine.book_history) = 2
    /\ engine.position.base # 0
    /\ quotes # << >>
    /\ quotes # build_quotes([engine EXCEPT !.best_bid = engine.book_history[1].best_bid,
                                            !.best_ask = engine.book_history[1].best_ask])

\* the event in hand is one whose arm takes the lock
WantsLock ==
    /\ pc = "handle"
    /\ \/ msg.kind = "Trades"
       \/ (msg.kind = "L2Book" /\ msg.levels[1] # << >> /\ msg.levels[2] # << >>)

\* C30: handle takes the engine lock at most once per event and never while
\* holding it, only on the paths that use the engine (not on the empty-side
\* return, not for an ignored event); it releases it before returning, so the
\* lock is never held while the loop waits for the next event; and every
\* acquisition it waits for succeeds.
C30_LockDiscipline ==
    /\ [](pc \in {"recv", "handle", "done"} => lock # "router")
    /\ [][ (lock' = "router" /\ lock # "router") => (lock = "free" /\ WantsLock) ]_vars
    /\ [][ (lock = "router" /\ lock' # "router") => (lock' = "free" /\ pc' = "recv") ]_vars
    /\ [][ (Leaves("handle") /\ ~WantsLock) => (pc' = "recv" /\ lock' = lock) ]_vars
    /\ (WantsLock ~> lock = "router")

\* the router waits for the lock while somebody else holds it
C30_Witness ==
    /\ WantsLock
    /\ lock = "observer"
    /\ nrecv >= 2

\* both proposals of an aggressive book event have been admitted
PairAdmitted ==
    /\ pc = "l2_eval"
    /\ engine.aggressive_mode
    /\ idx = 3
    /\ out[1].approved
    /\ out[2].approved

C32_FlatAlways ==
    /\ bot.position_size = 0
    /\ (bot.pc = "stop" /\ bot.open_price.some) => BotPnl = 0
    /\ bot.pc = "stop" => ~StopLossHit
    /\ LongGuard /\ ShortGuard

\* C32: in trade.rs position_size is 0 in every reachable state; the computed
\* pnl is 0 whenever the mid price and the open price are numbers and NaN
\* otherwise, never below -3.0, so the stop-loss branch is never taken; the
\* max_pos guards never block an order.
C32_FlatPnlZeroOrNaN ==
    /\ bot.position_size = 0
    /\ (bot.pc = "stop" /\ bot.open_price.some) =>
          /\ BotPnl = 0 \/ IsNaN(BotPnl)
          /\ (~IsNaN(bot.mid) /\ ~IsNaN(bot.open_price.val)) => BotPnl = 0
          /\ ~FLt(BotPnl, -30000)
    /\ bot.pc = "stop" => ~StopLossHit
    /\ LongGuard /\ ShortGuard

\* an order rests, the market has risen from its price, the trend is up: the
\* pnl is about to be computed
C32_Witness ==
    /\ bot.pc = "stop"
    /\ bot.open_price.some
    /\ FGt(FSub(bot.mid, bot.open_price.val), F(1))
    /\ FGt(bot.trend_score, bot_trend_threshold)
    /\ bot.active_orders # {}



\* the strategy has handled an event through its close and entry logic
EventEnded == strat.pc = "recv" /\ strat.ran

\* the position the event ends with is one it opened in its entry logic
OpenedInEntry ==
    /\ strat.position.some
    /\ ~(strat.at_entry.some /\ strat.at_entry.val = strat.position.val)

\* C33 (ws_l2_book.rs): no position is opened while a cooldown is active.  An
\* event at now_ms that ends with a long or short position it did not hold
\* when its entry logic began has cooldown_until_ms unset or <= now_ms; and
\* an event that closes a position for profit, which sets the cooldown to
\* now_ms + 10000, ends with no position.
C33_NoOpenInCooldown ==
    EventEnded =>
        /\ OpenedInEntry =>
               \/ ~strat.cooldown_until_ms.some
               \/ strat.cooldown_until_ms.val <= strat.now_ms
        /\ strat.took_profit => ~strat.position.some

=============================================================================
